---- MODULE Spec2Model ----
(***************************************************************************)
(* Model of the voice-CAPTCHA server of src/app.py: the challenges table   *)
(* (the Challenge Store), the in-process challenge_attempts map (the Rate  *)
(* Limiter) and the request handlers that create and verify challenges.    *)
(*                                                                         *)
(* Strings are sequences of one-character strings, time is counted in      *)
(* whole seconds, and every handler reads the clock once.                  *)
(***************************************************************************)
EXTENDS Integers, Sequences, FiniteSets, TLC

\* ------------------------------------------------------------------ bounds
\* Last second of the modelled clock.
MaxTime == 2
\* Number of requests the server handles in one run.
MaxCalls == 3

\* ------------------------------------------------------- program constants
\* poll_backend_ready(timeout=25) of the launcher, in seconds.
PollTimeout == 25
\* timedelta(seconds=2) of the rate limiter.
RateLimitSeconds == 2
\* k of random.choices in generate_synthetic_challenge.
SyntheticLen == 4
\* k of random.choices in alternative_challenge.
AlternativeLen == 3
\* random.randint(3, 6) of load_audio_samples.
DatasetMinLen == 3
DatasetMaxLen == 6

\* The part of the population '0123456789' the generators draw from here.
Population == {"7"}
\* Remote addresses of the clients.
Clients == {"ip1", "ip2"}
\* The threads of the server that handle requests.
Workers == {"w1", "w2"}
\* A challenge_id that is missing or empty (None or ''): falsy in Python.
None == <<>>
\* app.py started by hand: run_project.py is not in use.
NotLaunched == [pc |-> "off"]

VARIABLES
    store,               \* the challenges table: id -> row
    challenge_attempts,  \* the module-level dict: remote address -> last time
    use_dataset,         \* enhanced_generator.use_dataset
    clock,               \* what datetime.now() returns
    req,                 \* per worker thread: the verify request in progress
    call,                \* the request answered last
    reply,               \* the JSON it was answered with
    calls,               \* history: number of requests handled so far
    admitted,            \* history: <<address, time>> of each verify call
                         \*          let through the rate limiter, in order
    passed,              \* history: per challenge id, the completed verify
                         \*          calls that found its row
    matched,             \* history: the ids some verify call got through the
                         \*          rate limiter with the right digits for
    launcher             \* run_project.py: where main stands, the two child
                         \*          processes, and what has happened so far

vars == <<store, challenge_attempts, use_dataset, clock, req, call, reply,
          calls, admitted, passed, matched, launcher>>

\* ------------------------------------------------------------ pure helpers
\* str.isdigit on one character: the ASCII digits and, as in Python, the
\* other Unicode digits (here SUPERSCRIPT TWO, written "^2").
IsDigit(c) == c \in {"0", "1", "2", "3", "4", "5", "6", "7", "8", "9", "^2"}

\* The digit characters of a string, in order (what the history variables
\* and the properties compare).
Kept(s) == SelectSeq(s, IsDigit)

\* Mutant of Clean: nothing is stripped.
Clean_KeepAll(s) == s

\* ''.join(filter(str.isdigit, s))
RECURSIVE Clean(_)
Clean(s) ==
    IF s = <<>> THEN <<>>
    ELSE IF IsDigit(Head(s)) THEN <<Head(s)>> \o Clean(Tail(s))
         ELSE Clean(Tail(s))

\* Mutant of RandomChoices: one character more than asked for.
RandomChoices_OneMore(population, k) == [1..(k + 1) -> population]

\* random.choices(population, k=k): every string of k characters drawn
\* from the population.
RandomChoices(population, k) == [1..k -> population]

\* hashlib.md5(f"{text}{now}".encode()).hexdigest()[:16]: a function of the
\* text and the time only; distinct inputs are taken to hash apart.
ChallengeId(text, now) == <<text, now>>

\* ------------------------------------------------------- sequence sources
\* SimpleDatasetLoader.load_audio_samples / get_random_captcha: the labels
\* a random sample of the simulated dataset can carry.
DatasetLabels ==
    UNION {RandomChoices(Population, k) : k \in DatasetMinLen..DatasetMaxLen}

\* Mutant of generate_synthetic_challenge: the sequence is drawn from
\* letters, so that no digit is left in it.
generate_synthetic_challenge_Letters ==
    {[type |-> "synthetic", text |-> s] : s \in RandomChoices({"a"}, SyntheticLen)}

\* EnhancedAudioCaptchaGenerator.generate_synthetic_challenge
generate_synthetic_challenge ==
    {[type |-> "synthetic", text |-> s] : s \in RandomChoices(Population, SyntheticLen)}

\* EnhancedAudioCaptchaGenerator.generate_challenge_from_dataset; a label is
\* never empty, so the synthetic fallback is taken only with the flag off.
generate_challenge_from_dataset(flag) ==
    IF ~flag THEN generate_synthetic_challenge
    ELSE {[type |-> "dataset_audio", text |-> s] : s \in DatasetLabels}

\* The use_dataset field of the JSON body of a generate request: not there,
\* true or false.
UseDatasetFields == {"absent", "true", "false"}

\* The two ways a request gets a challenge picked: by default, and with the
\* dataset declined.
PlainFields == {"absent", "false"}

\* data.get('use_dataset', True)
DataGetUseDataset(field) == IF field = "absent" THEN TRUE ELSE field = "true"

\* Mutant of PickChallenge: the dataset is used when the request or the
\* generator says so.
PickChallenge_Either(requested, flag) ==
    IF requested \/ flag THEN generate_challenge_from_dataset(TRUE)
    ELSE generate_synthetic_challenge

\* The challenge enhanced_generate_challenge picks for a request.
PickChallenge(requested, flag) ==
    IF requested /\ flag THEN generate_challenge_from_dataset(flag)
    ELSE generate_synthetic_challenge

\* ------------------------------------------------------- Challenge Store
\* Mutant of NewRow: the INSERT itself counts as an attempt.
NewRow_Attempted(text, now, type) ==
    [sequence |-> text, created_at |-> now, attempts |-> 1, solved |-> FALSE,
     challenge_type |-> type]

\* INSERT INTO challenges (id, sequence, created_at, challenge_type): the
\* attempts and solved columns take their defaults.
NewRow(text, now, type) ==
    [sequence |-> text, created_at |-> now, attempts |-> 0, solved |-> FALSE,
     challenge_type |-> type]

InsertRow(st, id, text, now, type) ==
    [x \in DOMAIN st \cup {id} |->
        IF x = id THEN NewRow(text, now, type) ELSE st[x]]

\* Mutant of SelectRow: a missing row reads as an empty sequence never tried.
SelectRow_Default(st, id) ==
    IF id \in DOMAIN st THEN <<st[id].sequence, st[id].attempts>> ELSE <<<<>>, 0>>

\* SELECT sequence, challenge_type FROM challenges WHERE id = ?  (fetchone)
SelectAudioRow(st, id) ==
    IF id \in DOMAIN st THEN <<st[id].sequence, st[id].challenge_type>> ELSE <<>>

\* SELECT COUNT(*) FROM challenges
CountAll(st) == Cardinality(DOMAIN st)

\* SELECT COUNT(*) FROM challenges WHERE solved = TRUE
CountSolved(st) == Cardinality({id \in DOMAIN st : st[id].solved})

\* SELECT COUNT(*) FROM challenges WHERE challenge_type = "dataset_audio"
CountDataset(st) ==
    Cardinality({id \in DOMAIN st : st[id].challenge_type = "dataset_audio"})

\* SELECT sequence, attempts FROM challenges WHERE id = ?  (fetchone)
\* The row as a tuple, or the empty tuple for no row (None).
SelectRow(st, id) ==
    IF id \in DOMAIN st THEN <<st[id].sequence, st[id].attempts>> ELSE <<>>

\* Mutant of UpdateAttempts: a solved row is no longer counted.
UpdateAttempts_UnsolvedOnly(st, id, n) ==
    IF id \in DOMAIN st /\ ~st[id].solved THEN [st EXCEPT ![id].attempts = n] ELSE st

\* Mutant of UpdateAttempts: the number read is written back as it is.
UpdateAttempts_NoIncrement(st, id, n) ==
    IF id \in DOMAIN st THEN [st EXCEPT ![id].attempts = n - 1] ELSE st

\* UPDATE challenges SET attempts = ? WHERE id = ?
UpdateAttempts(st, id, n) ==
    IF id \in DOMAIN st THEN [st EXCEPT ![id].attempts = n] ELSE st

\* Mutant of UpdateSolved: the flag is toggled instead of set.
UpdateSolved_Toggle(st, id) ==
    IF id \in DOMAIN st THEN [st EXCEPT ![id].solved = ~@] ELSE st

\* Mutant of UpdateSolved: only a first try can solve a challenge.
UpdateSolved_FirstTryOnly(st, id) ==
    IF id \in DOMAIN st /\ st[id].attempts <= 1
    THEN [st EXCEPT ![id].solved = TRUE] ELSE st

\* Mutant of UpdateSolved: the answer of a solved challenge is wiped.
UpdateSolved_WipeAnswer(st, id) ==
    IF id \in DOMAIN st
    THEN [st EXCEPT ![id].solved = TRUE, ![id].sequence = <<>>] ELSE st

\* UPDATE challenges SET solved = TRUE WHERE id = ?
UpdateSolved(st, id) ==
    IF id \in DOMAIN st THEN [st EXCEPT ![id].solved = TRUE] ELSE st

\* ----------------------------------------------------------- Rate Limiter
\* Mutant of RateLimited: a gap of exactly the interval is still refused.
RateLimited_Inclusive(ca, ip, now) ==
    /\ ip \in DOMAIN ca
    /\ now - ca[ip] <= RateLimitSeconds

\* Mutant of RateLimited: one limit for all clients together.
RateLimited_AnyClient(ca, ip, now) ==
    \E c \in DOMAIN ca : now - ca[c] < RateLimitSeconds

\* ip in challenge_attempts and now - last_attempt < timedelta(seconds=2)
RateLimited(ca, ip, now) ==
    /\ ip \in DOMAIN ca
    /\ now - ca[ip] < RateLimitSeconds

\* Mutant of RecordClient: only the first call of a client is recorded.
RecordClient_FirstOnly(ca, ip, now) ==
    [c \in DOMAIN ca \cup {ip} |-> IF c \in DOMAIN ca THEN ca[c] ELSE now]

\* challenge_attempts[ip_address] = now
RecordClient(ca, ip, now) ==
    [c \in DOMAIN ca \cup {ip} |-> IF c = ip THEN now ELSE ca[c]]

\* ------------------------------------------------------------ the inputs
\* The response strings the clients send: the right digits among other
\* characters, a non-ASCII digit among them (a wrong answer), nothing.
Responses ==
    { <<"7", "-", "7", " ", "7", "a", "7">>,
      <<"7", "^2", "7", "7", "7">>,
      <<>> }

\* The responses sent while calls run in parallel: a right one and a wrong one.
ConcResponses ==
    { <<"7", "-", "7", " ", "7", "a", "7">>,
      <<"0", "0", "0", "0">> }

\* An id no create call has minted yet when a client sends it.
ProbeIds == {ChallengeId(<<"7", "7", "7">>, MaxTime)}

\* The challenge_id field of a verify request: a minted id, a made-up one,
\* or none at all.
RequestIds == DOMAIN store \cup ProbeIds \cup {None}

NoCall == [op |-> "none"]
NoReply == [status |-> 0]

\* --------------------------------------------------------- verify_response
\* Mutant of VerifyResponse: the attempt is recorded before the rate limiter
\* is asked.
VerifyResponse_CountFirst(st, ca, ip, challenge_id, user_response, now) ==
    LET result == SelectRow(st, challenge_id)
        st1 == IF result = <<>> THEN st
               ELSE UpdateAttempts(st, challenge_id, result[2] + 1)
    IN
    IF RateLimited(ca, ip, now)
    THEN [store |-> st1, challenge_attempts |-> ca,
          reply |-> [success |-> FALSE, rate_limited |-> TRUE]]
    ELSE
    LET ca2 == RecordClient(ca, ip, now) IN
    IF challenge_id = None
    THEN [store |-> st1, challenge_attempts |-> ca2,
          reply |-> [success |-> FALSE, error |-> "Missing challenge_id"]]
    ELSE
    IF result = <<>>
    THEN [store |-> st1, challenge_attempts |-> ca2,
          reply |-> [success |-> FALSE, error |-> "Invalid challenge"]]
    ELSE
    LET user_clean == Clean(user_response)
        sequence_clean == Clean(result[1])
        success == user_clean = sequence_clean
        st3 == IF success THEN UpdateSolved(st1, challenge_id) ELSE st1
    IN  [store |-> st3, challenge_attempts |-> ca2,
         reply |-> [success |-> success, expected |-> sequence_clean,
                    provided |-> user_clean]]

\* Mutant of VerifyResponse: a refused call is recorded as the client's last
\* attempt too.
VerifyResponse_RecordRefused(st, ca, ip, challenge_id, user_response, now) ==
    LET ca2 == RecordClient(ca, ip, now) IN
    IF RateLimited(ca, ip, now)
    THEN [store |-> st, challenge_attempts |-> ca2,
          reply |-> [success |-> FALSE, rate_limited |-> TRUE]]
    ELSE
    IF challenge_id = None
    THEN [store |-> st, challenge_attempts |-> ca2,
          reply |-> [success |-> FALSE, error |-> "Missing challenge_id"]]
    ELSE
    LET result == SelectRow(st, challenge_id) IN
    IF result = <<>>
    THEN [store |-> st, challenge_attempts |-> ca2,
          reply |-> [success |-> FALSE, error |-> "Invalid challenge"]]
    ELSE
    LET st2 == UpdateAttempts(st, challenge_id, result[2] + 1)
        user_clean == Clean(user_response)
        sequence_clean == Clean(result[1])
        success == user_clean = sequence_clean
        st3 == IF success THEN UpdateSolved(st2, challenge_id) ELSE st2
    IN  [store |-> st3, challenge_attempts |-> ca2,
         reply |-> [success |-> success, expected |-> sequence_clean,
                    provided |-> user_clean]]

\* The whole handler, run with no other request in between: the table, the
\* rate-limit map and the JSON answer it leaves.
VerifyResponse(st, ca, ip, challenge_id, user_response, now) ==
    IF RateLimited(ca, ip, now)
    THEN [store |-> st, challenge_attempts |-> ca,
          reply |-> [success |-> FALSE, rate_limited |-> TRUE]]
    ELSE
    LET ca2 == RecordClient(ca, ip, now) IN
    IF challenge_id = None
    THEN [store |-> st, challenge_attempts |-> ca2,
          reply |-> [success |-> FALSE, error |-> "Missing challenge_id"]]
    ELSE
    LET result == SelectRow(st, challenge_id) IN
    IF result = <<>>
    THEN [store |-> st, challenge_attempts |-> ca2,
          reply |-> [success |-> FALSE, error |-> "Invalid challenge"]]
    ELSE
    LET sequence == result[1]
        attempts == result[2]
        st2 == UpdateAttempts(st, challenge_id, attempts + 1)
        user_clean == Clean(user_response)
        sequence_clean == Clean(sequence)
        success == user_clean = sequence_clean
        st3 == IF success THEN UpdateSolved(st2, challenge_id) ELSE st2
    IN  [store |-> st3, challenge_attempts |-> ca2,
         reply |-> [success |-> success, expected |-> sequence_clean,
                    provided |-> user_clean]]

\* ---------------------------------------------------------------- actions
Idle == [pc |-> "idle"]

Init ==
    /\ store = <<>>
    /\ challenge_attempts = <<>>
    /\ use_dataset = TRUE
    /\ clock = 0
    /\ req = [w \in Workers |-> Idle]
    /\ call = NoCall
    /\ reply = NoReply
    /\ calls = 0
    /\ admitted = <<>>
    /\ passed = <<>>
    /\ matched = {}
    /\ launcher = NotLaunched

\* Time passes.
Tick ==
    /\ clock < MaxTime
    /\ clock' = clock + 1
    /\ UNCHANGED <<store, challenge_attempts, use_dataset, req, call, reply,
                   calls, admitted, passed, matched, launcher>>

\* One more request is taken on.
Accept ==
    /\ calls < MaxCalls
    /\ calls' = calls + 1

\* The INSERT of a create path and its answer; a second row with the id of
\* an existing one violates the PRIMARY KEY and the request fails. The answer
\* is the handler's jsonify(...) record, the new id among its fields.
Create(request, challenge, answer) ==
    LET challenge_id == ChallengeId(challenge.text, clock) IN
    /\ Accept
    /\ call' = request
    /\ IF challenge_id \in DOMAIN store
       THEN /\ reply' = [status |-> 500, error |-> "IntegrityError"]
            /\ UNCHANGED <<store, passed>>
       ELSE /\ store' = InsertRow(store, challenge_id, challenge.text, clock,
                                  challenge.type)
            /\ passed' = [x \in DOMAIN passed \cup {challenge_id} |->
                              IF x = challenge_id THEN 0 ELSE passed[x]]
            /\ reply' = answer
    /\ UNCHANGED <<challenge_attempts, use_dataset, clock, req, admitted,
                   matched, launcher>>

\* Mutant of GenerateChallenge: the answer to a dataset challenge carries
\* the audio only, its sequence field stays empty.
GenerateChallenge_AudioOnly(field) ==
    \E challenge \in PickChallenge(DataGetUseDataset(field), use_dataset) :
        Create([op |-> "generate", use_dataset |-> field], challenge,
               [status |-> 200,
                challenge_id |-> ChallengeId(challenge.text, clock),
                challenge_type |-> challenge.type,
                sequence_length |-> Len(challenge.text),
                sequence |-> IF challenge.type = "dataset_audio"
                             THEN <<>> ELSE challenge.text])

\* One generate request with the given use_dataset field, from start to end.
GenerateChallenge(field) ==
    \E challenge \in PickChallenge(DataGetUseDataset(field), use_dataset) :
        Create([op |-> "generate", use_dataset |-> field], challenge,
               [status |-> 200,
                challenge_id |-> ChallengeId(challenge.text, clock),
                challenge_type |-> challenge.type,
                sequence_length |-> Len(challenge.text),
                sequence |-> challenge.text])

\* POST /api/enhanced/generate-challenge
enhanced_generate_challenge ==
    \E field \in PlainFields : GenerateChallenge(field)

\* POST /api/alternative-challenge
alternative_challenge ==
    \E sequence \in RandomChoices(Population, AlternativeLen) :
        Create([op |-> "alternative"],
               [type |-> "alternative", text |-> sequence],
               [status |-> 200,
                challenge_id |-> ChallengeId(sequence, clock),
                sequence |-> sequence, type |-> "alternative_digits"])

\* GET /api/audio/<challenge_id>
serve_audio ==
    \E challenge_id \in DOMAIN store \cup ProbeIds :
        LET result == SelectAudioRow(store, challenge_id) IN
        /\ Accept
        /\ call' = [op |-> "audio", challenge_id |-> challenge_id]
        /\ reply' = IF result = <<>>
                    THEN [status |-> 404, error |-> "Challenge not found"]
                    ELSE IF result[2] = "dataset_audio"
                    THEN [status |-> 200, sequence |-> result[1]]
                    ELSE [status |-> 404,
                          error |-> "Audio not available for this challenge type"]
        /\ UNCHANGED <<store, challenge_attempts, use_dataset, clock, req,
                       admitted, passed, matched, launcher>>

\* GET /api/status
status ==
    /\ Accept
    /\ call' = [op |-> "status"]
    /\ reply' = [status |-> 200,
                 dataset_available |-> use_dataset,
                 challenges_generated |-> CountAll(store),
                 challenges_solved |-> CountSolved(store),
                 dataset_challenges_used |-> CountDataset(store)]
    /\ UNCHANGED <<store, challenge_attempts, use_dataset, clock, req, admitted,
                   passed, matched, launcher>>

\* One verify request, handled from start to end.
Verify(ip, challenge_id, user_response) ==
    LET out == VerifyResponse(store, challenge_attempts, ip, challenge_id,
                              user_response, clock)
    IN  /\ Accept
        /\ store' = out.store
        /\ challenge_attempts' = out.challenge_attempts
        /\ reply' = out.reply
        /\ call' = [op |-> "verify", ip |-> ip, challenge_id |-> challenge_id,
                    response |-> user_response]
        /\ admitted' = IF "rate_limited" \in DOMAIN out.reply
                       THEN admitted
                       ELSE Append(admitted, <<ip, clock>>)
        /\ passed' = IF "expected" \in DOMAIN out.reply
                        /\ challenge_id \in DOMAIN passed
                     THEN [passed EXCEPT ![challenge_id] = @ + 1]
                     ELSE passed
        /\ matched' = IF /\ "rate_limited" \notin DOMAIN out.reply
                          /\ challenge_id \in DOMAIN store
                          /\ Kept(user_response) = Kept(store[challenge_id].sequence)
                       THEN matched \cup {challenge_id}
                       ELSE matched
        /\ UNCHANGED <<use_dataset, clock, req, launcher>>

\* POST /api/verify-response
verify_response ==
    \E ip \in Clients, challenge_id \in RequestIds, user_response \in Responses :
        Verify(ip, challenge_id, user_response)

Next ==
    \/ Tick
    \/ enhanced_generate_challenge
    \/ alternative_challenge
    \/ verify_response

\* The server handling one request at a time.
Spec == Init /\ [][Next]_vars

\* ------------------------------------------------ the whole API, in turn
\* POST /api/enhanced/generate-challenge with any use_dataset field.
generate_with_field ==
    \E field \in UseDatasetFields : GenerateChallenge(field)

\* POST /api/verify-response from a client that answers a challenge it was
\* given: with the sequence the create answer carried, or with nothing.
verify_issued ==
    \E ip \in Clients, challenge_id \in DOMAIN store :
        \E user_response \in {store[challenge_id].sequence, <<>>} :
            Verify(ip, challenge_id, user_response)

\* The state after the module is loaded: initialize_dataset has returned
\* True, or False from its except branch.
ApiInit ==
    /\ store = <<>>
    /\ challenge_attempts = <<>>
    /\ use_dataset \in BOOLEAN
    /\ clock = 0
    /\ req = [w \in Workers |-> Idle]
    /\ call = NoCall
    /\ reply = NoReply
    /\ calls = 0
    /\ admitted = <<>>
    /\ passed = <<>>
    /\ matched = {}
    /\ launcher = NotLaunched

ApiNext ==
    \/ Tick
    \/ generate_with_field
    \/ alternative_challenge
    \/ verify_issued
    \/ serve_audio
    \/ status

\* Every endpoint that reads or writes the table, one request at a time,
\* with the dataset initialised or not.
ApiSpec == ApiInit /\ [][ApiNext]_vars

\* ------------------------------------------- verify_response, step by step
\* The server runs its handlers in threads (app.run serves threaded), so the
\* statements of two verify calls interleave. A step is either the reads up
\* to the rate-limit check or one write with the local work that follows it.

\* Lines 155-169: the request is read, the clock is read, the rate limiter
\* is asked; a refused call is answered at once.
VerifyBegin(w) ==
    \E ip \in Clients, challenge_id \in RequestIds, user_response \in ConcResponses :
        /\ req[w].pc = "idle"
        /\ Accept
        /\ IF RateLimited(challenge_attempts, ip, clock)
           THEN /\ reply' = [success |-> FALSE, rate_limited |-> TRUE]
                /\ call' = [op |-> "verify", ip |-> ip,
                            challenge_id |-> challenge_id,
                            response |-> user_response]
                /\ req' = req
           ELSE /\ req' = [req EXCEPT ![w] =
                            [pc |-> "record", ip |-> ip,
                             challenge_id |-> challenge_id,
                             user_response |-> user_response, now |-> clock]]
                /\ UNCHANGED <<call, reply, launcher>>
        /\ UNCHANGED <<store, challenge_attempts, use_dataset, clock, admitted,
                       passed, matched, launcher>>

\* Lines 171-173: the client's time is recorded; a call without an id ends.
VerifyRecord(w) ==
    LET r == req[w] IN
    /\ r.pc = "record"
    /\ challenge_attempts' = RecordClient(challenge_attempts, r.ip, r.now)
    /\ admitted' = Append(admitted, <<r.ip, r.now>>)
    /\ IF r.challenge_id = None
       THEN /\ reply' = [success |-> FALSE, error |-> "Missing challenge_id"]
            /\ call' = [op |-> "verify", ip |-> r.ip,
                        challenge_id |-> r.challenge_id,
                        response |-> r.user_response]
            /\ req' = [req EXCEPT ![w] = Idle]
       ELSE /\ req' = [req EXCEPT ![w].pc = "select"]
            /\ UNCHANGED <<call, reply, launcher>>
    /\ UNCHANGED <<store, use_dataset, clock, calls, passed, matched, launcher>>

\* Lines 176-184: the row is read; a call on a missing row ends.
VerifySelect(w) ==
    LET r == req[w]
        result == SelectRow(store, r.challenge_id)
    IN
    /\ r.pc = "select"
    /\ IF result = <<>>
       THEN /\ reply' = [success |-> FALSE, error |-> "Invalid challenge"]
            /\ call' = [op |-> "verify", ip |-> r.ip,
                        challenge_id |-> r.challenge_id,
                        response |-> r.user_response]
            /\ req' = [req EXCEPT ![w] = Idle]
       ELSE /\ req' = [req EXCEPT ![w] =
                        [pc |-> "update", ip |-> r.ip,
                         challenge_id |-> r.challenge_id,
                         user_response |-> r.user_response, now |-> r.now,
                         sequence |-> result[1], attempts |-> result[2]]]
            /\ UNCHANGED <<call, reply, launcher>>
    /\ UNCHANGED <<store, challenge_attempts, use_dataset, clock, calls,
                   admitted, passed, matched, launcher>>

\* Lines 187-188: the attempts read before, plus one, are written back.
VerifyUpdate(w) ==
    LET r == req[w] IN
    /\ r.pc = "update"
    /\ store' = UpdateAttempts(store, r.challenge_id, r.attempts + 1)
    /\ req' = [req EXCEPT ![w].pc = "compare"]
    /\ UNCHANGED <<challenge_attempts, use_dataset, clock, call, reply, calls,
                   admitted, passed, matched, launcher>>

\* Lines 191-207: the comparison, the solved flag, the answer.
VerifyCompare(w) ==
    LET r == req[w]
        user_clean == Clean(r.user_response)
        sequence_clean == Clean(r.sequence)
        success == user_clean = sequence_clean
    IN
    /\ r.pc = "compare"
    /\ store' = IF success THEN UpdateSolved(store, r.challenge_id) ELSE store
    /\ reply' = [success |-> success, expected |-> sequence_clean,
                 provided |-> user_clean]
    /\ call' = [op |-> "verify", ip |-> r.ip, challenge_id |-> r.challenge_id,
                response |-> r.user_response]
    /\ passed' = IF r.challenge_id \in DOMAIN passed
                 THEN [passed EXCEPT ![r.challenge_id] = @ + 1]
                 ELSE passed
    /\ matched' = IF /\ r.challenge_id \in DOMAIN store
                      /\ Kept(r.user_response) = Kept(store[r.challenge_id].sequence)
                   THEN matched \cup {r.challenge_id}
                   ELSE matched
    /\ req' = [req EXCEPT ![w] = Idle]
    /\ UNCHANGED <<challenge_attempts, use_dataset, clock, calls, admitted, launcher>>

\* The server after a restart: captcha.db still holds a challenge issued
\* before (here a synthetic one nobody has tried), the rate-limit map and
\* the threads start empty.
ConcInit ==
    /\ \E challenge \in generate_synthetic_challenge :
          /\ store = InsertRow(<<>>, ChallengeId(challenge.text, 0),
                               challenge.text, 0, challenge.type)
          /\ passed = [x \in {ChallengeId(challenge.text, 0)} |-> 0]
    /\ challenge_attempts = <<>>
    /\ use_dataset = TRUE
    /\ clock = 0
    /\ req = [w \in Workers |-> Idle]
    /\ call = NoCall
    /\ reply = NoReply
    /\ calls = 0
    /\ admitted = <<>>
    /\ matched = {}
    /\ launcher = NotLaunched

ConcNext ==
    \/ Tick
    \/ \E w \in Workers :
          \/ VerifyBegin(w)
          \/ VerifyRecord(w)
          \/ VerifySelect(w)
          \/ VerifyUpdate(w)
          \/ VerifyCompare(w)

\* The server handling verify calls in parallel threads.
ConcSpec == ConcInit /\ [][ConcNext]_vars

\* ---------------------------------------------------- status, step by step
\* The three COUNT queries of status are three statements on a connection
\* with no transaction open, so each reads the table as it is when it runs;
\* requests of other threads are handled in between.

\* Lines 261-266: the rows are counted.
StatusCountAll(w) ==
    /\ req[w].pc = "idle"
    /\ Accept
    /\ req' = [req EXCEPT ![w] = [pc |-> "count_solved",
                                  total_challenges |-> CountAll(store)]]
    /\ UNCHANGED <<store, challenge_attempts, use_dataset, clock, call, reply,
                   admitted, passed, matched, launcher>>

\* Lines 268-269: the solved rows are counted.
StatusCountSolved(w) ==
    LET r == req[w] IN
    /\ r.pc = "count_solved"
    /\ req' = [req EXCEPT ![w] = [pc |-> "count_dataset",
                                  total_challenges |-> r.total_challenges,
                                  solved_challenges |-> CountSolved(store)]]
    /\ UNCHANGED <<store, challenge_attempts, use_dataset, clock, call, reply,
                   calls, admitted, passed, matched, launcher>>

\* Lines 271-283: the dataset rows are counted and the answer is sent.
StatusCountDataset(w) ==
    LET r == req[w] IN
    /\ r.pc = "count_dataset"
    /\ call' = [op |-> "status"]
    /\ reply' = [status |-> 200,
                 dataset_available |-> use_dataset,
                 challenges_generated |-> r.total_challenges,
                 challenges_solved |-> r.solved_challenges,
                 dataset_challenges_used |-> CountDataset(store)]
    /\ req' = [req EXCEPT ![w] = Idle]
    /\ UNCHANGED <<store, challenge_attempts, use_dataset, clock, calls,
                   admitted, passed, matched, launcher>>

StatusNext ==
    \/ Tick
    \/ enhanced_generate_challenge
    \/ alternative_challenge
    \/ verify_issued
    \/ \E w \in Workers :
          \/ StatusCountAll(w)
          \/ StatusCountSolved(w)
          \/ StatusCountDataset(w)

\* Status requests handled in threads next to the other requests.
StatusSpec == Init /\ [][StatusNext]_vars

\* ------------------------------------------------- run_project.py: main
\* The launcher runs main once. A child process is "none" (not started),
\* "running", "serving" (the backend answers /api/status), "exited" (it
\* ended by itself), "terminating" (terminate() was called on it),
\* "terminated" or "killed" (how the launcher's cleanup left it).

\* What the server model holds; the launcher leaves it alone.
serverVars == <<store, challenge_attempts, use_dataset, clock, req, call, reply,
                calls, admitted, passed, matched>>

\* p.poll() is None
PollIsNone(p) == p \in {"running", "serving", "terminating"}

\* p.terminate() on a started process
Terminate(p) == IF p \in {"running", "serving"} THEN "terminating" ELSE p

\* The launcher before main runs, for the command line given.
LauncherStart(no_frontend) ==
    [pc |-> "checks", no_frontend |-> no_frontend,
     backend |-> "none", frontend |-> "none",
     elapsed |-> 0, exit_code |-> -1,
     ports_busy |-> FALSE, ready |-> FALSE, ctrl_c |-> FALSE, left |-> "none"]

\* sys.exit(code)
SysExit(l, code) == [l EXCEPT !.pc = "exited", !.exit_code = code]

\* Lines 144-159: the Python version, the optional venv and pip install.
BasicChecks ==
    /\ launcher.pc = "checks"
    /\ \E outcome \in {"ok", "old python", "venv failed"} :
          launcher' = CASE outcome = "ok" -> [launcher EXCEPT !.pc = "ports"]
                        [] outcome = "old python" -> SysExit(launcher, 2)
                        [] outcome = "venv failed" -> SysExit(launcher, 1)
    /\ UNCHANGED serverVars

\* Lines 161-168: port_is_free for the backend, and for the frontend unless
\* --no-frontend was given.
PortChecks ==
    /\ launcher.pc = "ports"
    /\ \E backend_free, frontend_free \in BOOLEAN :
          launcher' =
            IF ~backend_free \/ (~launcher.no_frontend /\ ~frontend_free)
            THEN SysExit([launcher EXCEPT !.ports_busy = TRUE], 3)
            ELSE [launcher EXCEPT !.pc = "start_backend"]
    /\ UNCHANGED serverVars

\* Lines 170-174: start_process(BACKEND_CMD), which may fail.
StartBackend ==
    /\ launcher.pc = "start_backend"
    /\ \E started \in BOOLEAN :
          launcher' = IF started
                      THEN [launcher EXCEPT !.pc = "poll", !.backend = "running"]
                      ELSE SysExit(launcher, 4)
    /\ UNCHANGED serverVars

\* Mutant of PollBackend: after the timeout the launcher goes on.
PollBackend_GoOnAfterTimeout ==
    /\ launcher.pc = "poll"
    /\ \/ /\ launcher.elapsed >= PollTimeout
          /\ launcher' = [launcher EXCEPT !.pc = "start_frontend"]
       \/ /\ launcher.elapsed < PollTimeout
          /\ launcher.backend = "serving"
          /\ launcher' = [launcher EXCEPT !.pc = "start_frontend", !.ready = TRUE]
       \/ /\ launcher.elapsed < PollTimeout
          /\ launcher' = [launcher EXCEPT !.elapsed = @ + 1]
    /\ UNCHANGED serverVars

\* Lines 120-134 and 176-180: one turn of the loop of poll_backend_ready,
\* or its end. A request to a backend that serves returns 200 or fails; a
\* failed one is followed by a second of sleep. After the deadline the
\* backend is told to terminate and main exits.
PollBackend ==
    /\ launcher.pc = "poll"
    /\ \/ /\ launcher.elapsed >= PollTimeout
          /\ launcher' = SysExit([launcher EXCEPT
                                    !.backend = Terminate(launcher.backend)], 5)
       \/ /\ launcher.elapsed < PollTimeout
          /\ launcher.backend = "serving"
          /\ launcher' = [launcher EXCEPT !.pc = "start_frontend", !.ready = TRUE]
       \/ /\ launcher.elapsed < PollTimeout
          /\ launcher' = [launcher EXCEPT !.elapsed = @ + 1]
    /\ UNCHANGED serverVars

\* Lines 182-188: start_process(FRONTEND_CMD) unless --no-frontend; a
\* failure is a warning only.
StartFrontend ==
    /\ launcher.pc = "start_frontend"
    /\ IF launcher.no_frontend
       THEN launcher' = [launcher EXCEPT !.pc = "watch"]
       ELSE \E started \in BOOLEAN :
               launcher' = [launcher EXCEPT
                              !.pc = "watch",
                              !.frontend = IF started THEN "running" ELSE "none"]
    /\ UNCHANGED serverVars

\* Lines 199-210: a turn of the loop that finds a child ended and breaks.
WatchLoop ==
    /\ launcher.pc = "watch"
    /\ IF ~PollIsNone(launcher.backend)
       THEN launcher' = [launcher EXCEPT
                           !.frontend = Terminate(launcher.frontend),
                           !.left = "backend exited", !.pc = "cleanup"]
       ELSE /\ launcher.frontend # "none"
            /\ ~PollIsNone(launcher.frontend)
            /\ launcher' = [launcher EXCEPT
                              !.left = "frontend exited", !.pc = "cleanup"]
    /\ UNCHANGED serverVars

\* Lines 211-212: Ctrl+C while the loop runs.
KeyboardInterrupt ==
    /\ launcher.pc = "watch"
    /\ launcher' = [launcher EXCEPT
                      !.ctrl_c = TRUE, !.left = "ctrl_c", !.pc = "cleanup"]
    /\ UNCHANGED serverVars

\* Lines 213-220: the finally block tells both children to terminate.
CleanupTerminate ==
    /\ launcher.pc = "cleanup"
    /\ launcher' = [launcher EXCEPT
                      !.backend = Terminate(launcher.backend),
                      !.frontend = Terminate(launcher.frontend),
                      !.pc = "wait"]
    /\ UNCHANGED serverVars

\* Lines 222-232: each child gets five seconds to end and is killed if it
\* has not; then main returns.
CleanupWait ==
    /\ launcher.pc = "wait"
    /\ \E b, f \in {"terminated", "killed"} :
          launcher' = [launcher EXCEPT
                         !.backend = IF @ = "terminating" THEN b ELSE @,
                         !.frontend = IF @ = "terminating" THEN f ELSE @,
                         !.pc = "exited", !.exit_code = 0]
    /\ UNCHANGED serverVars

\* The backend, once started, comes to answer /api/status.
BackendServes ==
    /\ launcher.pc \in {"poll", "start_frontend", "watch"}
    /\ launcher.backend = "running"
    /\ launcher' = [launcher EXCEPT !.backend = "serving"]
    /\ UNCHANGED serverVars

\* A child ends by itself.
BackendExits ==
    /\ launcher.pc \in {"poll", "start_frontend", "watch"}
    /\ launcher.backend \in {"running", "serving"}
    /\ launcher' = [launcher EXCEPT !.backend = "exited"]
    /\ UNCHANGED serverVars

FrontendExits ==
    /\ launcher.pc = "watch"
    /\ launcher.frontend = "running"
    /\ launcher' = [launcher EXCEPT !.frontend = "exited"]
    /\ UNCHANGED serverVars

LauncherInit ==
    /\ store = <<>>
    /\ challenge_attempts = <<>>
    /\ use_dataset = TRUE
    /\ clock = 0
    /\ req = [w \in Workers |-> Idle]
    /\ call = NoCall
    /\ reply = NoReply
    /\ calls = 0
    /\ admitted = <<>>
    /\ passed = <<>>
    /\ matched = {}
    /\ \E no_frontend \in BOOLEAN : launcher = LauncherStart(no_frontend)

LauncherNext ==
    \/ BasicChecks
    \/ PortChecks
    \/ StartBackend
    \/ PollBackend
    \/ StartFrontend
    \/ WatchLoop
    \/ KeyboardInterrupt
    \/ CleanupTerminate
    \/ CleanupWait
    \/ BackendServes
    \/ BackendExits
    \/ FrontendExits

\* python run_project.py, with the children and the user at the console.
LauncherSpec == LauncherInit /\ [][LauncherNext]_vars

\* ------------------------------------------------------------ properties
\* The answer of a call the rate limiter refused.
RateLimitedReply == [success |-> FALSE, rate_limited |-> TRUE]

\* This step is a whole verify call (of Spec).
VerifyStep == calls' = calls + 1 /\ call'.op = "verify"

\* Before the step, the rate limiter holds nothing against the address.
GateOpen(ip) ==
    \/ ip \notin DOMAIN challenge_attempts
    \/ clock - challenge_attempts[ip] >= RateLimitSeconds

\* C1: a verify call the rate limiter refuses answers {success: false,
\* rate_limited: true} and leaves every row of the table as it was, whatever
\* id and response it carries; no call with the gate closed gets any further.
C1_RateLimitedCallLeavesStore ==
    [][ (VerifyStep /\ (~GateOpen(call'.ip) \/ "rate_limited" \in DOMAIN reply'))
        => (reply' = RateLimitedReply /\ store' = store) ]_vars

\* A refused call that named an existing, untouched challenge and carried
\* its correct answer.
C1_Witness ==
    /\ call.op = "verify"
    /\ reply = RateLimitedReply
    /\ call.challenge_id \in DOMAIN store
    /\ Kept(call.response) = Kept(store[call.challenge_id].sequence)
    /\ store[call.challenge_id].attempts = 0
    /\ ~store[call.challenge_id].solved

\* C2: with calls handled one at a time, a verify call that passes the gate
\* and names an existing id adds exactly 1 to that row's attempts, match or
\* not; so attempts equals the number of such calls made on the row.
C2_EachVerifyCountsOnce ==
    /\ [](\A id \in DOMAIN store : store[id].attempts = passed[id])
    /\ [][ (VerifyStep /\ GateOpen(call'.ip) /\ call'.challenge_id \in DOMAIN store)
           => LET id == call'.challenge_id IN
              /\ store'[id].attempts = store[id].attempts + 1
              /\ passed'[id] = passed[id] + 1 ]_vars

\* Two counted calls on one challenge, the second of them matching.
C2_Witness ==
    \E id \in DOMAIN store :
        /\ store[id].attempts = 2
        /\ passed[id] = 2
        /\ store[id].solved
        /\ call.op = "verify" /\ call.challenge_id = id
        /\ "expected" \in DOMAIN reply /\ reply.success

\* C3: a row's solved flag starts false, goes from false to true only in a
\* verify call on that id whose kept digits equal those of the expected
\* answer, and never goes back; a matching call on a solved row succeeds and
\* leaves it solved.
C3_SolvedOnlyRises ==
    [][ /\ \A id \in DOMAIN store :
              /\ id \in DOMAIN store'
              /\ store[id].solved => store'[id].solved
              /\ (~store[id].solved /\ store'[id].solved)
                    => /\ VerifyStep
                       /\ call'.challenge_id = id
                       /\ Kept(call'.response) = Kept(store[id].sequence)
        /\ \A id \in DOMAIN store' \ DOMAIN store : ~store'[id].solved
        /\ (/\ VerifyStep /\ GateOpen(call'.ip)
            /\ call'.challenge_id \in DOMAIN store
            /\ store[call'.challenge_id].solved
            /\ Kept(call'.response) = Kept(store[call'.challenge_id].sequence))
              => /\ reply'.success
                 /\ store'[call'.challenge_id].solved ]_vars

\* A wrong answer on a challenge solved before: it stays solved.
C3_Witness ==
    \E id \in DOMAIN store :
        /\ store[id].solved
        /\ store[id].attempts >= 2
        /\ call.op = "verify" /\ call.challenge_id = id
        /\ "expected" \in DOMAIN reply /\ ~reply.success
        /\ Kept(call.response) # Kept(store[id].sequence)

\* C4: the gate of verify for client c at time now: with a recorded
\* last attempt less than the interval before now the call is refused and
\* the record of c stays; otherwise the call is let through and the record
\* of c becomes now. The records of the other clients stay in both cases.
C4_GateCheckAndSet ==
    [][ VerifyStep =>
        LET ip == call'.ip
            ca == challenge_attempts
        IN  IF ip \in DOMAIN ca /\ clock - ca[ip] < RateLimitSeconds
            THEN /\ "rate_limited" \in DOMAIN reply'
                 /\ challenge_attempts' = ca
            ELSE /\ "rate_limited" \notin DOMAIN reply'
                 /\ challenge_attempts' =
                        [c \in DOMAIN ca \cup {ip} |-> IF c = ip THEN clock ELSE ca[c]]
      ]_vars

\* A client let through again exactly the interval after its last call.
C4_Witness ==
    /\ call.op = "verify"
    /\ "rate_limited" \notin DOMAIN reply
    /\ Len(admitted) = 2
    /\ admitted[1][1] = call.ip /\ admitted[2][1] = call.ip
    /\ admitted[2][2] - admitted[1][2] = RateLimitSeconds
    /\ challenge_attempts[call.ip] = clock

\* C5: with calls handled one after another, two calls of one client that
\* both pass the gate are at least the interval apart; a call of a client
\* less than the interval after a call of it that passed is refused,
\* whatever id it names, and changes no row's attempts.
C5_AdmittedCallsSpaced ==
    /\ [](\A i, j \in DOMAIN admitted :
            (i < j /\ admitted[i][1] = admitted[j][1])
                => admitted[j][2] - admitted[i][2] >= RateLimitSeconds)
    /\ [][ (VerifyStep /\ \E i \in DOMAIN admitted :
                              /\ admitted[i][1] = call'.ip
                              /\ clock - admitted[i][2] < RateLimitSeconds)
           => /\ reply' = RateLimitedReply
              /\ admitted' = admitted
              /\ \A id \in DOMAIN store :
                    store'[id].attempts = store[id].attempts ]_vars

\* A client tried a challenge, and its next call, on the same challenge a
\* second later, is refused.
C5_Witness ==
    /\ call.op = "verify"
    /\ reply = RateLimitedReply
    /\ call.challenge_id \in DOMAIN store
    /\ store[call.challenge_id].attempts = 1
    /\ Len(admitted) = 1
    /\ admitted[1][1] = call.ip
    /\ clock - admitted[1][2] = 1

\* C6: a verify call naming an id with no row fails (success false, with an
\* error when the gate let it through) and leaves the table as it was; rows
\* are added by the two create paths alone, and none is ever removed.
C6_UnknownIdChangesNothing ==
    [][ /\ (VerifyStep /\ call'.challenge_id \notin DOMAIN store)
            => /\ store' = store
               /\ ~reply'.success
               /\ GateOpen(call'.ip) => "error" \in DOMAIN reply'
        /\ DOMAIN store' # DOMAIN store
            => /\ calls' = calls + 1
               /\ call'.op \in {"generate", "alternative"}
               /\ DOMAIN store \subseteq DOMAIN store' ]_vars

\* A made-up id was refused as invalid while the table held a challenge.
C6_Witness ==
    /\ call.op = "verify"
    /\ call.challenge_id \in ProbeIds
    /\ "error" \in DOMAIN reply /\ reply.error = "Invalid challenge"
    /\ store # <<>>
    /\ call.challenge_id \notin DOMAIN store

\* C10: a verify call that reaches the comparison (gate passed, row found)
\* reports success exactly when the digit characters kept from the response
\* equal those kept from the expected answer, and returns the two kept
\* strings as expected and provided; every other verify call reports
\* failure. A digit character is what str.isdigit accepts.
C10_SuccessIffKeptDigitsEqual ==
    [][ VerifyStep =>
        LET id == call'.challenge_id
            r  == call'.response
        IN  IF GateOpen(call'.ip) /\ id \in DOMAIN store
            THEN reply' = [success  |-> Kept(r) = Kept(store[id].sequence),
                           expected |-> Kept(store[id].sequence),
                           provided |-> Kept(r)]
            ELSE ~reply'.success ]_vars

\* A response with separators and a letter among the right digits succeeds.
C10_Witness ==
    /\ call.op = "verify"
    /\ "provided" \in DOMAIN reply
    /\ reply.success
    /\ call.response # reply.provided
    /\ reply.provided = reply.expected
    /\ Len(reply.expected) = SyntheticLen

\* No verify call is in progress.
AllIdle == \A w \in Workers : req[w].pc = "idle"

\* C7: verify calls on one challenge that run in parallel and all pass the
\* gate lose no update: once they have completed, the row's attempts have
\* grown by the number of completed calls, and a call that matched has left
\* the row solved.
C7_NoLostUpdate ==
    AllIdle =>
        /\ \A id \in DOMAIN store : store[id].attempts = passed[id]
        /\ (call.op = "verify" /\ "expected" \in DOMAIN reply /\ reply.success)
              => store[call.challenge_id].solved

\* C8: the check of the interval and the update of the client's time are one
\* step per client: of the verify calls of one client handled in parallel at
\* times less than the interval apart, at most one passes the gate.
C8_GateIsAtomic ==
    \A i, j \in DOMAIN admitted :
        (i < j /\ admitted[i][1] = admitted[j][1])
            => \/ admitted[j][2] - admitted[i][2] >= RateLimitSeconds
               \/ admitted[i][2] - admitted[j][2] >= RateLimitSeconds

\* C9: no row's attempts ever decrease from one state of the table to the
\* next, however the reads and writes of parallel verify calls interleave.
C9_AttemptsNeverDecrease ==
    [][ \A id \in DOMAIN store :
            /\ id \in DOMAIN store'
            /\ store'[id].attempts >= store[id].attempts ]_vars

\* The operations that add a row.
CreateOps == {"generate", "alternative"}

\* The last call was a create call that returned an id.
Created == call.op \in CreateOps /\ "challenge_id" \in DOMAIN reply

\* The characters 0-9.
AsciiDigits == {"0", "1", "2", "3", "4", "5", "6", "7", "8", "9"}

\* C11: a verify call whose response keeps no digit never reports success
\* and never sets a row's solved flag; no stored answer is without digits,
\* so a row of that sort is never reported as a match either.
C11_EmptyResponseNeverMatches ==
    /\ [](\A id \in DOMAIN store : Kept(store[id].sequence) # <<>>)
    /\ [][ (VerifyStep /\ Kept(call'.response) = <<>>)
           => /\ ~reply'.success
              /\ \A id \in DOMAIN store :
                    store'[id].solved = store[id].solved ]_vars

\* An empty response was compared with the answer of an untried challenge
\* and refused.
C11_Witness ==
    /\ call.op = "verify"
    /\ call.response = <<>>
    /\ "provided" \in DOMAIN reply
    /\ reply.provided = <<>> /\ reply.expected # <<>>
    /\ ~reply.success
    /\ store[call.challenge_id].attempts = 1
    /\ ~store[call.challenge_id].solved

\* C12: with calls handled one at a time, a row is solved exactly when some
\* verify call on it got through the rate limiter with kept digits equal to
\* those of the expected answer: wrong tries before it do not prevent this,
\* wrong tries after it do not undo it.
C12_SolvedIffSomeCallMatched ==
    \A id \in DOMAIN store : store[id].solved <=> id \in matched

\* A challenge solved at the second try, after a wrong one.
C12_Witness ==
    \E id \in matched :
        /\ store[id].solved
        /\ store[id].attempts = 2
        /\ call.op = "verify" /\ call.challenge_id = id
        /\ reply.success
        /\ Len(admitted) = 2

\* C13: no create call fails or overwrites a row because its id is taken:
\* two challenges created while the server runs get different ids, also
\* when they draw the same sequence and read the same time.
C13_CreateNeverCollides ==
    call.op \in CreateOps => reply.status = 200

\* C14: right after a create call has returned an id, the table holds a row
\* for it with attempts 0 and solved false, whose sequence is the generated
\* one and whose type is the generator's (alternative on that path).
C14_CreatedRowIsFresh ==
    Created =>
        LET id == reply.challenge_id IN
        /\ id \in DOMAIN store
        /\ store[id].attempts = 0
        /\ ~store[id].solved
        /\ store[id].sequence = reply.sequence
        /\ store[id].challenge_type =
              IF call.op = "generate" THEN reply.challenge_type ELSE "alternative"

\* A challenge created after another one was tried and solved.
C14_Witness ==
    /\ Created
    /\ \E id \in DOMAIN store :
          /\ id # reply.challenge_id
          /\ store[id].solved
          /\ store[id].attempts = 1
          /\ store[id].sequence = store[reply.challenge_id].sequence

\* C15: every stored answer is made of the digits 0-9 only, and its length
\* is 3 to 6 for dataset_audio, 4 for synthetic and 3 for alternative; the
\* alternative path stores type alternative.
C15_AnswerShapeByKind ==
    /\ \A id \in DOMAIN store :
          LET row == store[id] IN
          /\ \A i \in DOMAIN row.sequence : row.sequence[i] \in AsciiDigits
          /\ row.challenge_type \in {"dataset_audio", "synthetic", "alternative"}
          /\ row.challenge_type = "dataset_audio" => Len(row.sequence) \in 3..6
          /\ row.challenge_type = "synthetic" => Len(row.sequence) = 4
          /\ row.challenge_type = "alternative" => Len(row.sequence) = 3
    /\ (Created /\ call.op = "alternative")
          => store[reply.challenge_id].challenge_type = "alternative"

\* The table holds a challenge of each kind, the dataset one of six digits.
C15_Witness ==
    /\ \E id \in DOMAIN store :
          store[id].challenge_type = "dataset_audio" /\ Len(store[id].sequence) = 6
    /\ \E id \in DOMAIN store : store[id].challenge_type = "synthetic"
    /\ \E id \in DOMAIN store : store[id].challenge_type = "alternative"

\* C16: a generate call stores and returns type dataset_audio exactly when
\* the request's use_dataset is true or absent and the generator's
\* use_dataset is on, and type synthetic in every other case.
C16_KindFollowsRequestAndMode ==
    (Created /\ call.op = "generate") =>
        LET kind == IF call.use_dataset \in {"absent", "true"} /\ use_dataset
                    THEN "dataset_audio" ELSE "synthetic"
        IN  /\ reply.challenge_type = kind
            /\ store[reply.challenge_id].challenge_type = kind

\* The dataset was asked for while the generator has it off.
C16_Witness ==
    /\ Created /\ call.op = "generate"
    /\ call.use_dataset = "true"
    /\ ~use_dataset
    /\ reply.challenge_type = "synthetic"

\* C17: the answer of a generate call carries, for both kinds, the stored
\* sequence of the returned id and its length; a verify call on that id
\* with that sequence as it is, let through by the rate limiter, succeeds.
C17_ReturnedSequenceIsTheAnswer ==
    /\ []((Created /\ call.op = "generate")
            => /\ reply.sequence = store[reply.challenge_id].sequence
               /\ reply.sequence_length = Len(store[reply.challenge_id].sequence))
    /\ [][ (/\ VerifyStep /\ GateOpen(call'.ip)
            /\ call'.challenge_id \in DOMAIN store
            /\ call'.response = store[call'.challenge_id].sequence)
           => /\ reply'.success
              /\ store'[call'.challenge_id].solved ]_vars

\* A dataset challenge of five digits was answered with its sequence.
C17_Witness ==
    /\ call.op = "verify"
    /\ call.challenge_id \in DOMAIN store
    /\ store[call.challenge_id].challenge_type = "dataset_audio"
    /\ call.response = store[call.challenge_id].sequence
    /\ Len(call.response) = 5
    /\ "expected" \in DOMAIN reply /\ reply.success

\* C18: a verify call without a challenge_id is refused before the rate
\* limiter: the client's recorded time stays as it was, and so does the
\* table.
C18_MissingIdStopsBeforeGate ==
    [][ (VerifyStep /\ call'.challenge_id = None)
        => /\ ~reply'.success
           /\ "rate_limited" \notin DOMAIN reply'
           /\ challenge_attempts' = challenge_attempts
           /\ store' = store ]_vars

\* C19: the two writes of a matching verify call take effect together: in
\* no state has such a call's attempt been written while the row is still
\* unsolved.
C19_AttemptAndSolvedTogether ==
    \A w \in Workers :
        (/\ req[w].pc = "compare"
         /\ Kept(req[w].user_response) = Kept(req[w].sequence))
            => store[req[w].challenge_id].solved

\* C20: no request changes the sequence, the created_at or the type of an
\* existing row; a verify call changes at most the attempts and the solved
\* flag of the row it names, and status and audio calls change nothing.
C20_AnswerTimeKindNeverChange ==
    [][ /\ \A id \in DOMAIN store :
              /\ id \in DOMAIN store'
              /\ store'[id].sequence = store[id].sequence
              /\ store'[id].created_at = store[id].created_at
              /\ store'[id].challenge_type = store[id].challenge_type
              /\ (VerifyStep /\ id # call'.challenge_id) => store'[id] = store[id]
        /\ (calls' = calls + 1 /\ call'.op \in {"status", "audio"})
              => store' = store ]_vars

\* The audio of a dataset challenge is served after it was solved.
C20_Witness ==
    /\ call.op = "audio"
    /\ reply.status = 200
    /\ store[call.challenge_id].solved
    /\ store[call.challenge_id].attempts = 1
    /\ reply.sequence = store[call.challenge_id].sequence

\* The lifecycle states of a row.
Pending(row) == row.attempts = 0 /\ ~row.solved
Attempted(row) == row.attempts >= 1 /\ ~row.solved
Solved(row) == row.attempts >= 1 /\ row.solved

\* C21: every row is Pending (attempts 0, not solved), Attempted (attempts
\* at least 1, not solved) or Solved (attempts at least 1, solved): none is
\* solved with no attempt, none leaves Solved, none comes back to Pending.
C21_LifecycleStates ==
    /\ [](\A id \in DOMAIN store :
            Pending(store[id]) \/ Attempted(store[id]) \/ Solved(store[id]))
    /\ [][ /\ \A id \in DOMAIN store :
                 /\ id \in DOMAIN store'
                 /\ Solved(store[id]) => Solved(store'[id])
                 /\ ~Pending(store[id]) => ~Pending(store'[id])
           /\ \A id \in DOMAIN store' \ DOMAIN store : Pending(store'[id]) ]_vars

\* A challenge solved at its first try next to one nobody has tried.
C21_Witness ==
    /\ \E id \in DOMAIN store : Solved(store[id]) /\ store[id].attempts = 1
    /\ \E id \in DOMAIN store : Pending(store[id])

\* The time of the last call of the client the rate limiter let through, or
\* -1 when there is none.
LastAdmitted(ip) ==
    LET at == {admitted[i][2] : i \in {j \in DOMAIN admitted : admitted[j][1] = ip}}
    IN  IF at = {} THEN -1 ELSE CHOOSE t \in at : \A u \in at : u <= t

\* C22: refused calls do not move the client's recorded time: a verify call
\* of a client made the interval or more after its last call that was let
\* through (or its first call) is let through, however many of its calls
\* were refused in between.
C22_RefusedCallsDoNotLockOut ==
    /\ [](\A ip \in DOMAIN challenge_attempts :
            challenge_attempts[ip] = LastAdmitted(ip))
    /\ [][ VerifyStep =>
           /\ (LastAdmitted(call'.ip) = -1
                 \/ clock - LastAdmitted(call'.ip) >= RateLimitSeconds)
                 => "rate_limited" \notin DOMAIN reply'
           /\ "rate_limited" \in DOMAIN reply'
                 => challenge_attempts' = challenge_attempts ]_vars

\* Three verify calls and no other: the client's first call, one refused a
\* second later, and one let through at the interval after the first.
C22_Witness ==
    /\ calls = 3
    /\ store = <<>>
    /\ call.op = "verify"
    /\ "rate_limited" \notin DOMAIN reply
    /\ Len(admitted) = 2
    /\ admitted[1][1] = call.ip /\ admitted[2][1] = call.ip
    /\ admitted[2][2] = admitted[1][2] + RateLimitSeconds
    /\ clock = admitted[2][2]

\* C23: a verify call changes no row but the one it names and no rate-limit
\* entry but the caller's, and whether it is refused depends on the caller's
\* own entry alone: no client is refused because of another client's calls.
C23_VerifyTouchesOnlyWhatItNames ==
    [][ VerifyStep =>
        LET ip == call'.ip
            ca == challenge_attempts
        IN  /\ \A id \in DOMAIN store :
                  id # call'.challenge_id => store'[id] = store[id]
            /\ DOMAIN store' = DOMAIN store
            /\ \A c \in DOMAIN ca \ {ip} :
                  c \in DOMAIN challenge_attempts' /\ challenge_attempts'[c] = ca[c]
            /\ DOMAIN challenge_attempts' \subseteq DOMAIN ca \cup {ip}
            /\ "rate_limited" \in DOMAIN reply'
                  <=> (ip \in DOMAIN ca /\ clock - ca[ip] < RateLimitSeconds) ]_vars

\* Two clients try one challenge in the same second: the second is let
\* through as the first was, and the first client's entry stays.
C23_Witness ==
    /\ call.op = "verify"
    /\ "expected" \in DOMAIN reply
    /\ Len(admitted) = 2
    /\ admitted[1][1] # admitted[2][1]
    /\ admitted[1][2] = admitted[2][2]
    /\ store[call.challenge_id].attempts = 2
    /\ challenge_attempts[admitted[1][1]] = admitted[1][2]

\* C24: the counts of every status answer fit one state of the table:
\* challenges_solved and dataset_challenges_used are at most
\* challenges_generated, also when create and verify calls are handled
\* between the three count queries.
C24_StatusCountsConsistent ==
    call.op = "status" =>
        /\ reply.challenges_solved <= reply.challenges_generated
        /\ reply.dataset_challenges_used <= reply.challenges_generated

\* The launcher has started the child.
Started(p) == p # "none"

\* C25: the frontend is started only after the backend was started and the
\* poll of /api/status reported ready; with a required port in use nothing
\* is started; when the backend does not become ready it is told to
\* terminate and the frontend is never started.
C25_FrontendOnlyAfterBackendReady ==
    /\ [](Started(launcher.frontend)
            => (launcher.ready /\ Started(launcher.backend)))
    /\ [](launcher.ports_busy
            => /\ ~Started(launcher.backend) /\ ~Started(launcher.frontend)
               /\ launcher.pc = "exited")
    /\ []((launcher.pc \notin {"checks", "ports", "start_backend", "poll"}
             /\ Started(launcher.backend) /\ ~launcher.ready)
            => /\ launcher.backend \notin {"running", "serving"}
               /\ ~Started(launcher.frontend)
               /\ launcher.pc = "exited")
    /\ [][ (~Started(launcher.frontend) /\ Started(launcher'.frontend))
           => (launcher.ready /\ Started(launcher.backend)) ]_vars

\* The frontend runs next to a backend that answered only after some
\* failed polls.
C25_Witness ==
    /\ launcher.pc = "watch"
    /\ launcher.frontend = "running"
    /\ launcher.backend = "serving"
    /\ launcher.ready
    /\ launcher.elapsed >= 2

\* C26: when the frontend ends by itself while the backend runs, the
\* launcher does not stop the backend: it runs on until Ctrl+C.
C26_BackendSurvivesFrontendExit ==
    (launcher.pc # "off" /\ launcher.left = "frontend exited" /\ ~launcher.ctrl_c)
        => launcher.backend \notin {"terminating", "terminated", "killed"}

====
